---- MODULE Spec2Model ----
(***************************************************************************)
(* std140.rs: the catalog of std140 types (std140/src/lib.rs), their       *)
(* layout under the representation attributes the source gives them, the   *)
(* three marker traits, and the #[repr_std140] attribute macro             *)
(* (std140_macros/src/repr_std140.rs) applied to the declarations of a     *)
(* user crate.                                                             *)
(*                                                                         *)
(* A type is a tuple:                                                      *)
(*   <<"scalar", n>>    a Rust scalar f32 / i32 / u32                      *)
(*   <<"prim", n>>      one of the sixteen std140 scalars and vectors      *)
(*   <<"mat", n>>       one of the nine std140 matrices                    *)
(*   <<"array", T, N>>  std140::array<T, N>                                *)
(*   <<"user", i>>      the i-th type the user crate declares              *)
(*   <<"host", n>>      a type of another crate (String)                   *)
(***************************************************************************)
EXTENDS Integers, Sequences, FiniteSets, TLC

VARIABLES env, last, probe, obj, res

vars == <<env, last, probe, obj, res>>

\* ------------------------------------------------------------------ bounds

\* Largest array length measured.
MaxLen == 3
\* Most declarations the user crate holds.
MaxDecls == 2
\* Most fields of a declared struct.
MaxFields == 2
\* Largest index a vector is accessed at.
MaxIndex == 4
\* Most elements of an array value.
MaxElems == 2

\* ----------------------------------------------------------------- helpers

Max(a, b) == IF a >= b THEN a ELSE b

RoundUp(n, a) == ((n + a - 1) \div a) * a

RECURSIVE MaxAlign(_)
MaxAlign(ls) == IF ls = <<>> THEN 1 ELSE Max(Head(ls).align, MaxAlign(Tail(ls)))

\* --------------------------------------------------------- type declarations

\* The sixteen scalar and vector types: the align(..) of their #[repr(C, align(..))]
\* and their fields in order.
PrimDecl ==
    [ float |-> [align |-> 4,  fields |-> <<"f32">>],
      vec2  |-> [align |-> 8,  fields |-> <<"f32", "f32">>],
      vec3  |-> [align |-> 16, fields |-> <<"f32", "f32", "f32">>],
      vec4  |-> [align |-> 16, fields |-> <<"f32", "f32", "f32", "f32">>],
      int   |-> [align |-> 4,  fields |-> <<"i32">>],
      ivec2 |-> [align |-> 8,  fields |-> <<"i32", "i32">>],
      ivec3 |-> [align |-> 16, fields |-> <<"i32", "i32", "i32">>],
      ivec4 |-> [align |-> 16, fields |-> <<"i32", "i32", "i32", "i32">>],
      uint  |-> [align |-> 4,  fields |-> <<"u32">>],
      uvec2 |-> [align |-> 8,  fields |-> <<"u32", "u32">>],
      uvec3 |-> [align |-> 16, fields |-> <<"u32", "u32", "u32">>],
      uvec4 |-> [align |-> 16, fields |-> <<"u32", "u32", "u32", "u32">>],
      \* #[repr(u32)] enum boolean { True = 1, False = 0 }
      boolean |-> [align |-> 4, fields |-> <<"u32">>],
      bvec2 |-> [align |-> 8,  fields |-> <<"boolean", "boolean">>],
      bvec3 |-> [align |-> 16, fields |-> <<"boolean", "boolean", "boolean">>],
      bvec4 |-> [align |-> 16, fields |-> <<"boolean", "boolean", "boolean", "boolean">>] ]

PrimNames == DOMAIN PrimDecl

\* The arity (number of components) of a scalar or vector type.
Arity(n) == Len(PrimDecl[n].fields)

\* The nine matrix types: struct matCxR { columns: array<vecR, C> }.
MatDecl ==
    [ mat2x2 |-> [col |-> "vec2", cols |-> 2],
      mat2x3 |-> [col |-> "vec3", cols |-> 2],
      mat2x4 |-> [col |-> "vec4", cols |-> 2],
      mat3x2 |-> [col |-> "vec2", cols |-> 3],
      mat3x3 |-> [col |-> "vec3", cols |-> 3],
      mat3x4 |-> [col |-> "vec4", cols |-> 3],
      mat4x2 |-> [col |-> "vec2", cols |-> 4],
      mat4x3 |-> [col |-> "vec3", cols |-> 4],
      mat4x4 |-> [col |-> "vec4", cols |-> 4] ]

MatNames == DOMAIN MatDecl

PrimTypes == {<<"prim", n>> : n \in PrimNames}
MatTypes == {<<"mat", n>> : n \in MatNames}

\* A type of another crate that implements none of the marker traits.
HostString == <<"host", "String">>

\* ------------------------------------------------------------------- layout

\* f32, i32 and u32 are 4 bytes, aligned to 4.
ScalarLayout == [size |-> 4, align |-> 4]

\* Offsets of the fields of a #[repr(C)] struct: each field is placed, in
\* declaration order, at the first multiple of its alignment at or after the
\* end of the field before it.
RECURSIVE PlaceFields(_, _)
PlaceFields(ls, cur) ==
    IF ls = <<>> THEN <<>>
    ELSE LET off == RoundUp(cur, Head(ls).align)
         IN  <<off>> \o PlaceFields(Tail(ls), off + Head(ls).size)

\* The layout of a #[repr(C, align(a))] struct whose fields have the layouts ls:
\* the alignment is the larger of a and the fields' alignments, and the size is
\* the end of the last field rounded up to the alignment.
ReprC(ls, a) ==
    LET offs == PlaceFields(ls, 0)
        al == Max(a, MaxAlign(ls))
        end == IF ls = <<>> THEN 0 ELSE offs[Len(ls)] + ls[Len(ls)].size
    IN  [offsets |-> offs, size |-> RoundUp(end, al), align |-> al]

\* ArrayElementWrapper<T> without its align(16).
WrapperUnaligned(el) == ReprC(<<el>>, 1)

\* #[repr(C, align(16))] struct ArrayElementWrapper<T> { element: T }
ArrayElementWrapper(el) == ReprC(<<el>>, 16)

\* struct array<T, LEN> { internal: [ArrayElementWrapper<T>; LEN] }
ArrayLayout(el, n) ==
    LET w == ArrayElementWrapper(el)
    IN  [size |-> n * w.size, align |-> w.align]

\* A matrix whose columns are stored in a plain [vecR; C].
MatColumnsUnwrapped(el, n) == [size |-> n * el.size, align |-> el.align]

\* struct matCxR { columns: array<vecR, C> }
MatLayout(el, n) == ArrayLayout(el, n)

\* size_of and align_of of the scalar or vector n.
RECURSIVE PrimLayout(_)
PrimLayout(n) ==
    LET d == PrimDecl[n]
        fl == [i \in 1..Len(d.fields) |->
                 IF d.fields[i] \in PrimNames THEN PrimLayout(d.fields[i])
                 ELSE ScalarLayout]
    IN  IF n = "boolean" THEN ScalarLayout
        ELSE LET r == ReprC(fl, d.align) IN [size |-> r.size, align |-> r.align]

\* size_of and align_of of the type T, with the user crate's declarations e.
RECURSIVE Layout(_, _)
Layout(T, e) ==
    CASE T[1] = "prim" -> PrimLayout(T[2])
      [] T[1] = "mat" -> MatLayout(PrimLayout(MatDecl[T[2]].col), MatDecl[T[2]].cols)
      [] T[1] = "array" -> ArrayLayout(Layout(T[2], e), T[3])
      [] T[1] = "user" -> [size |-> e[T[2]].size, align |-> e[T[2]].align]
      [] T[1] = "host" -> [size |-> 24, align |-> 8]
      [] OTHER -> ScalarLayout

SizeOf(T, e) == Layout(T, e).size
AlignOf(T, e) == Layout(T, e).align

\* ------------------------------------------------------------------ markers

\* An entry of env, one per declaration of the user crate, in order:
\*   status  "plain" (declared without the macro), "validated" (the macro's
\*           output compiled) or "rejected" (it did not compile)
\*   size, align   the type's layout
\*   impls   the marker traits implemented for the type itself, by the macro's
\*           output or by an unsafe impl the user wrote
\*   unmarked   the types without any marker trait that a validated struct
\*           holds, in a field, an array element or a nested validated struct
Declared(T, e) == T[1] = "user" /\ T[2] \in 1..Len(e)

DirectImpls(T, e) == IF Declared(T, e) THEN e[T[2]].impls ELSE {}

\* The library's impls with Std140ArrayElement left out for the vectors.
LibImplsNoVectorElement ==
    {<<"ReprStd140", T>> : T \in PrimTypes \cup MatTypes}
    \cup {<<"Std140ArrayElement", T>> : T \in {<<"prim", n>> : n \in {m \in PrimNames : Arity(m) = 1}}
                                             \cup MatTypes}

\* The library's impls with Std140Struct implemented for the matrices as well.
LibImplsMatrixStruct ==
    {<<tr, T>> : tr \in {"ReprStd140", "Std140ArrayElement"}, T \in PrimTypes \cup MatTypes}
    \cup {<<"Std140Struct", T>> : T \in MatTypes}

\* The impls the library writes out, one line each:
\* unsafe impl ReprStd140 for X {} and unsafe impl Std140ArrayElement for X {}
\* for each scalar, vector and matrix X. It implements Std140Struct for no type.
LibImpls ==
    {<<tr, T>> : tr \in {"ReprStd140", "Std140ArrayElement"}, T \in PrimTypes \cup MatTypes}

\* array<T, LEN> and its impl of ReprStd140 asking nothing of T.
ArrayBoundMissing(T, e) == TRUE

\* T: Std140Struct
Std140Struct(T, e) ==
    \/ <<"Std140Struct", T>> \in LibImpls
    \/ "Std140Struct" \in DirectImpls(T, e)

\* Std140ArrayElement without the blanket impl for Std140Struct types.
ArrayElementNoBlanket(T, e) ==
    \/ <<"Std140ArrayElement", T>> \in LibImpls
    \/ "Std140ArrayElement" \in DirectImpls(T, e)

\* T: Std140ArrayElement
Std140ArrayElement(T, e) ==
    \/ <<"Std140ArrayElement", T>> \in LibImpls
    \/ "Std140ArrayElement" \in DirectImpls(T, e)
    \/ Std140Struct(T, e)

\* The bound where T: Std140ArrayElement, which both struct array<T, LEN> and
\* its impl of ReprStd140 carry.
ArrayBound(T, e) == Std140ArrayElement(T, e)

\* T: ReprStd140
ReprStd140(T, e) ==
    \/ <<"ReprStd140", T>> \in LibImpls
    \/ "ReprStd140" \in DirectImpls(T, e)
    \/ Std140Struct(T, e)
    \/ T[1] = "array" /\ ArrayBound(T[2], e)

\* The marker traits T holds.
Markers(T, e) ==
    {tr \in {"ReprStd140", "Std140ArrayElement", "Std140Struct"} :
        CASE tr = "ReprStd140" -> ReprStd140(T, e)
          [] tr = "Std140ArrayElement" -> Std140ArrayElement(T, e)
          [] OTHER -> Std140Struct(T, e)}

\* Whether the type T can be written in the user crate: an array's element
\* type meets the bound of array, and a user type is one that compiled.
RECURSIVE WellFormed(_, _)
WellFormed(T, e) ==
    CASE T[1] = "array" -> WellFormed(T[2], e) /\ ArrayBound(T[2], e)
      [] T[1] = "user" -> Declared(T, e) /\ e[T[2]].status # "rejected"
      [] OTHER -> TRUE

\* The types without any marker trait that T holds: T itself, the element type
\* of an array, the types a validated struct holds.
RECURSIVE Unmarked(_, _)
Unmarked(T, e) ==
    (IF Markers(T, e) = {} THEN {T} ELSE {})
    \cup CASE T[1] = "array" -> Unmarked(T[2], e)
           [] Declared(T, e) /\ e[T[2]].status = "validated" -> e[T[2]].unmarked
           [] OTHER -> {}

\* -------------------------------------------------------------- the macro

MsgOtherRepr == "Cannot parse another #[repr] attribute on a struct marked with #[repr_std140]"
MsgNotStruct == "Cannot represent an enum or union as std140, only a struct."

\* The check for another #[repr] that never finds one.
NoOtherRepr(input) == FALSE

has_other_repr(input) == \E i \in 1..Len(input.attrs) : input.attrs[i] = "repr"

\* What the macro returns: error is the message of its compile_error!, or ""
\* and then: the item re-emitted under #[repr(C, align(align))], one
\* assert_repr_std140::<ty> per field, and the impls of the marker traits.
NoTokens == [error |-> "", emit |-> FALSE, align |-> 0, asserts |-> <<>>, impls |-> {}]

\* The error emitted next to the item instead of in its place.
CompileErrorKeepsItem(message) == [NoTokens EXCEPT !.error = message, !.emit = TRUE, !.align = 16]

compile_error(message) == [NoTokens EXCEPT !.error = message]

\* The expansion with #[repr(C)] alone on the re-emitted item.
ExpandNoAlign(input) ==
    IF input.kind = "struct"
    THEN IF has_other_repr(input) THEN compile_error(MsgOtherRepr)
         ELSE [error |-> "", emit |-> TRUE, align |-> 1,
               asserts |-> input.fields, impls |-> {"Std140Struct"}]
    ELSE compile_error(MsgNotStruct)

\* The expansion with the assert of the first field left out.
ExpandSkipFirst(input) ==
    IF input.kind = "struct"
    THEN IF has_other_repr(input) THEN compile_error(MsgOtherRepr)
         ELSE [error |-> "", emit |-> TRUE, align |-> 16,
               asserts |-> IF input.fields = <<>> THEN <<>> ELSE Tail(input.fields),
               impls |-> {"Std140Struct"}]
    ELSE compile_error(MsgNotStruct)

\* The expansion that builds the asserts before it looks for another #[repr].
ExpandReprLate(input) ==
    IF input.kind = "struct"
    THEN IF has_other_repr(input)
         THEN [compile_error(MsgOtherRepr) EXCEPT !.asserts = input.fields]
         ELSE [error |-> "", emit |-> TRUE, align |-> 16,
               asserts |-> input.fields, impls |-> {"Std140Struct"}]
    ELSE compile_error(MsgNotStruct)

\* expand_repr_std140(input).unwrap_or_else(compile_error)
expand_repr_std140(input) ==
    IF input.kind = "struct"
    THEN IF has_other_repr(input) THEN compile_error(MsgOtherRepr)
         ELSE [error |-> "", emit |-> TRUE, align |-> 16,
               asserts |-> input.fields, impls |-> {"Std140Struct"}]
    ELSE compile_error(MsgNotStruct)

\* The attributes without the first a.
RECURSIVE Without(_, _)
Without(attrs, a) ==
    IF attrs = <<>> THEN <<>>
    ELSE IF Head(attrs) = a THEN Tail(attrs)
    ELSE <<Head(attrs)>> \o Without(Tail(attrs), a)

\* The item as the macro emits it, #[repr(C, align(16))] #input, when the
\* compiler has taken the next #[repr_std140] off it to invoke the macro again.
Reemitted(input) ==
    [input EXCEPT !.attrs = <<"repr">> \o Without(input.attrs, "repr_std140")]

\* The compiler expands the attribute macros of an item until none is left: an
\* item emitted with a #[repr_std140] still on it goes through the macro once
\* more, and what that returns stands in the item's place next to the asserts
\* and impls already emitted.
RECURSIVE Expansion(_)
Expansion(input) ==
    LET tokens == expand_repr_std140(input)
    IN  IF tokens.emit /\ \E i \in 1..Len(input.attrs) : input.attrs[i] = "repr_std140"
        THEN LET again == Expansion(Reemitted(input))
             IN  [error |-> again.error, emit |-> again.emit, align |-> again.align,
                  asserts |-> tokens.asserts \o again.asserts,
                  impls |-> tokens.impls \cup again.impls]
        ELSE tokens

\* The asserts that fail although the type asserted on meets the bound too.
FailedAssertsAll(asserts, e) ==
    IF \E i \in 1..Len(asserts) : ~(WellFormed(asserts[i], e) /\ ReprStd140(asserts[i], e))
    THEN 1..Len(asserts)
    ELSE {}

\* The fields whose assert_repr_std140::<ty> { .. } does not compile: ty must
\* be a type and meet the bound T: ReprStd140 of assert_repr_std140.
FailedAsserts(asserts, e) ==
    {i \in 1..Len(asserts) : ~(WellFormed(asserts[i], e) /\ ReprStd140(asserts[i], e))}

\* The compiler keeping the impls of an expansion whose asserts do not compile.
CompileKeepsImpls(input, tokens, e) ==
    LET unknown == {i \in 1..Len(input.fields) : ~WellFormed(input.fields[i], e)}
        failed == FailedAsserts(tokens.asserts, e)
        bad == IF tokens.emit THEN unknown \cup failed ELSE {}
        ok == tokens.error = "" /\ bad = {}
        lay == IF ok
               THEN ReprC([i \in 1..Len(input.fields) |-> Layout(input.fields[i], e)],
                          tokens.align)
               ELSE [offsets |-> <<>>, size |-> 0, align |-> 1]
    IN  [entry |-> [status |-> IF ok THEN "validated" ELSE "rejected",
                    size |-> lay.size, align |-> lay.align,
                    impls |-> IF tokens.emit THEN tokens.impls ELSE {},
                    unmarked |-> IF ok
                                 THEN UNION {Unmarked(input.fields[i], e) :
                                                i \in 1..Len(input.fields)}
                                 ELSE {}],
         message |-> tokens.error,
         errors |-> bad,
         offsets |-> lay.offsets]

\* The macro's output compiled against the declarations e: the entry of the
\* declared type, the fields the compiler reports, and the field offsets.
Compile(input, tokens, e) ==
    LET unknown == {i \in 1..Len(input.fields) : ~WellFormed(input.fields[i], e)}
        offset == Len(input.fields) - Len(tokens.asserts)
        failed == {i + offset : i \in FailedAsserts(tokens.asserts, e)}
        bad == IF tokens.emit THEN unknown \cup failed ELSE {}
        ok == tokens.error = "" /\ bad = {}
        lay == IF ok
               THEN ReprC([i \in 1..Len(input.fields) |-> Layout(input.fields[i], e)],
                          tokens.align)
               ELSE [offsets |-> <<>>, size |-> 0, align |-> 1]
    IN  [entry |-> [status |-> IF ok THEN "validated" ELSE "rejected",
                    size |-> lay.size, align |-> lay.align,
                    impls |-> IF ok THEN tokens.impls ELSE {},
                    unmarked |-> IF ok
                                 THEN UNION {Unmarked(input.fields[i], e) :
                                                i \in 1..Len(input.fields)}
                                 ELSE {}],
         message |-> tokens.error,
         errors |-> bad,
         offsets |-> lay.offsets]

\* ------------------------------------------------------------ the user crate

Float == <<"prim", "float">>
Vec2 == <<"prim", "vec2">>
Vec3 == <<"prim", "vec3">>
Array(T, n) == <<"array", T, n>>
User(i) == <<"user", i>>

NoInput == [kind |-> "none", attrs |-> <<>>, fields |-> <<>>]

\* The types a field of the next declaration is drawn from.
FieldMenu(e) ==
    LET elems == {Float, HostString} \cup {User(j) : j \in 1..Len(e)}
    IN  {Vec2, Vec3} \cup elems \cup {Array(T, MaxLen) : T \in elems}
        \cup {Array(Array(Float, MaxLen), MaxLen)}

FieldLists(e) == UNION {[1..k -> FieldMenu(e)] : k \in 0..MaxFields}

\* The declarations the macro is applied to: a struct, a struct that carries
\* another #[repr(..)] attribute or a second #[repr_std140] (of at most one
\* field), an enum, a union.
Inputs(e) ==
    {[kind |-> "struct", attrs |-> <<>>, fields |-> fs] : fs \in FieldLists(e)}
    \cup {[kind |-> "struct", attrs |-> <<a>>, fields |-> fs] :
            a \in {"repr", "repr_std140"}, fs \in {f \in FieldLists(e) : Len(f) <= 1}}
    \cup {[kind |-> k, attrs |-> <<>>, fields |-> <<>>] : k \in {"enum", "union"}}

\* The crate documentation's example: PointLight, then Uniforms.
Example(k) ==
    IF k = 1
    THEN [kind |-> "struct", attrs |-> <<>>, fields |-> <<Vec3, Float>>]
    ELSE [kind |-> "struct", attrs |-> <<>>,
          fields |-> <<<<"mat", "mat4x4">>, Vec3, Array(User(1), 2)>>]

\* The types whose size and alignment are measured.
Measurable(e) ==
    LET base == PrimTypes \cup MatTypes
                \cup {User(j) : j \in {i \in 1..Len(e) : Std140ArrayElement(User(i), e)}}
    IN  base \cup {Array(T, n) : T \in base, n \in 0..MaxLen}

\* last when no item is being reported on.
NoItem == [name |-> 0, input |-> NoInput, tokens |-> NoTokens, status |-> "none",
           message |-> "", errors |-> {}, offsets |-> <<>>, size |-> 0, align |-> 0]

\* obj when no value has been constructed, res when no operation has returned.
NoObj == [ty |-> <<"none">>, v |-> <<>>]
NoRes == [op |-> "none", i |-> 0, x |-> <<>>, error |-> "", panic |-> "", out |-> <<>>,
          before |-> <<>>]

Init ==
    /\ env = <<>>
    /\ last = NoItem
    /\ probe = [ty |-> <<"none">>, size |-> 0, align |-> 0]
    /\ obj = NoObj
    /\ res = NoRes

\* #[repr_std140] on the next declaration of the crate: the macro expands it and
\* the compiler compiles what the macro returned.
repr_std140(input) ==
    LET tokens == Expansion(input)
        c == Compile(input, tokens, env)
    IN  /\ env' = Append(env, c.entry)
        /\ last' = [name |-> Len(env) + 1, input |-> input, tokens |-> tokens,
                    status |-> c.entry.status,
                    message |-> c.message, errors |-> c.errors, offsets |-> c.offsets,
                    size |-> c.entry.size, align |-> c.entry.align]
        /\ UNCHANGED <<probe, obj, res>>

Declare ==
    /\ last = NoItem
    /\ Len(env) < MaxDecls
    /\ \E input \in Inputs(env) : repr_std140(input)

\* A struct declared without the macro: struct Plain { name: String }.
DeclarePlain ==
    /\ last = NoItem
    /\ Len(env) < MaxDecls
    /\ env' = Append(env, [status |-> "plain", size |-> Layout(HostString, env).size,
                           align |-> Layout(HostString, env).align, impls |-> {},
                           unmarked |-> {}])
    /\ UNCHANGED <<last, probe, obj, res>>

\* unsafe impl tr for the i-th declared type {}, written in the user crate. The
\* impl compiles when it does not overlap the blanket impls for Std140Struct
\* types and, for Std140ArrayElement, the supertrait ReprStd140 is implemented.
UnsafeImpl ==
    \E i \in 1..Len(env), tr \in {"ReprStd140", "Std140ArrayElement", "Std140Struct"} :
        /\ last = NoItem
        /\ env[i].status = "plain"
        /\ tr \notin env[i].impls
        /\ "Std140Struct" \notin env[i].impls
        /\ tr = "Std140Struct" => env[i].impls = {}
        /\ tr = "Std140ArrayElement" => "ReprStd140" \in env[i].impls
        /\ env' = [env EXCEPT ![i].impls = @ \cup {tr}]
        /\ UNCHANGED <<last, probe, obj, res>>

\* The compiler has reported on the item and goes on to the next one.
NextItem ==
    /\ last # NoItem
    /\ last' = NoItem
    /\ UNCHANGED <<env, probe, obj, res>>

Next == Declare \/ NextItem \/ DeclarePlain \/ UnsafeImpl

Spec == Init /\ [][Next]_vars

\* The example of the crate documentation is declared, one struct at a time.
DeclareExample ==
    /\ Len(env) < 2
    /\ repr_std140(Example(Len(env) + 1))

\* std::mem::size_of::<T>() and std::mem::align_of::<T>()
Measure ==
    \E T \in Measurable(env) :
        /\ probe' = [ty |-> T, size |-> SizeOf(T, env), align |-> AlignOf(T, env)]
        /\ UNCHANGED <<env, last, obj, res>>

NextLayout == DeclareExample \/ Measure

SpecLayout == Init /\ [][NextLayout]_vars

\* ------------------------------------------------------------------ values

\* A value of the library is held with its type: obj = [ty, v]. An f32 is the
\* pair of whether it is NaN and of its number; an i32 or u32 is an integer; a boolean is the name of its
\* variant; a scalar or vector, a tuple struct, is the tuple of its fields.
\* res holds what the last operation was given (i, x), what obj.v was before
\* it, the error of the compiler if the operation does not compile, the message
\* it panicked with, and in out what it returned, if anything.
NaN == <<TRUE, 0>>
F32(n) == <<FALSE, n>>
IsNaN(x) == x[1]

\* enum boolean with the discriminants exchanged.
DiscriminantSwapped == [True |-> 0, False |-> 1]

\* #[repr(u32)] enum boolean { True = 1, False = 0 }
Discriminant == [True |-> 1, False |-> 0]

\* impl From<bool> for boolean
From(value) == IF value THEN "True" ELSE "False"

\* The values a field of the Rust type k is drawn from.
FieldVals(k) ==
    CASE k = "f32" -> {F32(0), F32(1), NaN}
      [] k = "i32" -> {-1, 0, 1}
      [] k = "u32" -> {0, 1}
      [] k = "boolean" -> {From(FALSE), From(TRUE)}

\* The Rust type of the fields of the scalar or vector n.
FieldKind(n) == PrimDecl[n].fields[1]

VecNames == {n \in PrimNames : Arity(n) >= 2}

MsgIndex == "Index out of bounds"

\* Component access that wraps around instead of panicking.
IndexWraps(n, index) == [panic |-> "", field |-> (index % Arity(n)) + 1]

\* impl Index<usize> for the vector n: the field the match arm of index refers
\* to, or the panic of the arm _.
Index(n, index) ==
    IF index < Arity(n) THEN [panic |-> "", field |-> index + 1]
    ELSE [panic |-> MsgIndex, field |-> 0]

\* impl IndexMut<usize> for the vector n.
IndexMut(n, index) ==
    IF index < Arity(n) THEN [panic |-> "", field |-> index + 1]
    ELSE [panic |-> MsgIndex, field |-> 0]

\* The words a scalar or vector of booleans is stored as.
Encoding(n, v) ==
    IF n = "boolean" THEN <<Discriminant[v]>>
    ELSE [i \in 1..Arity(n) |-> Discriminant[v[i]]]

\* vecN(c0, ..), float(c0), ..: the tuple struct of the fields given.
NewPrim ==
    \E n \in PrimNames \ {"boolean"} :
        \E args \in [1..Arity(n) -> FieldVals(FieldKind(n))] :
            /\ res.op = "none"
            /\ obj' = [ty |-> <<"prim", n>>, v |-> args]
            /\ res' = [NoRes EXCEPT !.op = "new", !.x = args]
            /\ UNCHANGED <<env, last, probe>>

\* boolean::from(value)
FromBool ==
    \E value \in BOOLEAN :
        /\ res.op = "none"
        /\ obj' = [ty |-> <<"prim", "boolean">>, v |-> From(value)]
        /\ res' = [NoRes EXCEPT !.op = "from", !.x = <<value>>]
        /\ UNCHANGED <<env, last, probe>>

\* obj[i], read
VecIndex ==
    \E i \in 0..MaxIndex :
        /\ res.op = "none"
        /\ obj.ty[1] = "prim" /\ obj.ty[2] \in VecNames
        /\ LET r == Index(obj.ty[2], i)
           IN  res' = [NoRes EXCEPT !.op = "index", !.i = i, !.panic = r.panic,
                                    !.out = IF r.panic = "" THEN <<obj.v[r.field]>> ELSE <<>>,
                                    !.before = obj.v]
        /\ UNCHANGED <<env, last, probe, obj>>

\* obj[i] = x
VecIndexMut ==
    \E i \in 0..MaxIndex :
        /\ res.op = "none"
        /\ obj.ty[1] = "prim" /\ obj.ty[2] \in VecNames
        /\ \E x \in FieldVals(FieldKind(obj.ty[2])) :
              LET r == IndexMut(obj.ty[2], i)
              IN  /\ obj' = IF r.panic = "" THEN [obj EXCEPT !.v[r.field] = x] ELSE obj
                  /\ res' = [NoRes EXCEPT !.op = "index_mut", !.i = i, !.x = <<x>>,
                                           !.panic = r.panic, !.before = obj.v]
        /\ UNCHANGED <<env, last, probe>>

\* ---- arrays

\* vecN::zero()
zero(n) == [i \in 1..Arity(n) |-> IF FieldKind(n) = "f32" THEN F32(0) ELSE 0]

\* The vector n whose component k is 1 and whose others are 0.
Unit(n, k) ==
    [i \in 1..Arity(n) |->
        IF FieldKind(n) = "f32" THEN F32(IF i = k THEN 1 ELSE 0)
        ELSE IF i = k THEN 1 ELSE 0]

\* The element types arrays are made of, and the elements they are made from.
ElemNames == {"float", "boolean", "vec2", "vec4"}

ElemVals(n) ==
    CASE n = "float" -> {<<x>> : x \in FieldVals("f32")}
      [] n = "boolean" -> FieldVals("boolean")
      [] OTHER -> {Unit(n, k) : k \in 1..Arity(n)}

\* The bytes of ArrayElementWrapper<T> after element are padding: what they
\* hold is not specified, and for a T of 16 bytes there are none.
PadBytes(n) ==
    IF ArrayElementWrapper(PrimLayout(n)).size > PrimLayout(n).size THEN {0, 1} ELSE {0}

\* array::from_wrapped(wrapped)
from_wrapped(wrapped) == [internal |-> wrapped]

\* array![x0, x1, ..]: each element in an ArrayElementWrapper { element: x }.
ArrayOf(xs, pads) ==
    from_wrapped([i \in 1..Len(xs) |-> [element |-> xs[i], pad |-> pads[i]]])

\* array![elem; n]
ArrayRepeat(elem, n, pads) ==
    from_wrapped([i \in 1..n |-> [element |-> elem, pad |-> pads[i]]])

\* The values of array<n, len>.
Arrays(n, len) ==
    {ArrayOf(xs, pads) : xs \in [1..len -> ElemVals(n)], pads \in [1..len -> PadBytes(n)]}

\* ---- equality

\* == on f32 (IEEE: NaN equals nothing), i32, u32; derived on enum boolean.
FieldEq(k, a, b) == IF k = "f32" THEN ~IsNaN(a) /\ ~IsNaN(b) /\ a[2] = b[2] ELSE a = b

\* #[derive(PartialEq)] on a scalar or vector: every field equal.
PrimEq(n, a, b) ==
    IF n = "boolean" THEN a = b
    ELSE \A i \in 1..Arity(n) : FieldEq(FieldKind(n), a[i], b[i])

\* Equality of the wrappers byte by byte, padding included.
WrapperEqBytes(n, a, b) == PrimEq(n, a.element, b.element) /\ a.pad = b.pad

\* #[derive(PartialEq)] on ArrayElementWrapper<T>: the field element.
WrapperEq(n, a, b) == PrimEq(n, a.element, b.element)

\* impl PartialEq for array: the loop for i in 0..LEN, from i on.
RECURSIVE ArrayEqFrom(_, _, _, _, _)
ArrayEqFrom(n, LEN, a, b, i) ==
    IF i >= LEN THEN TRUE
    ELSE IF ~WrapperEq(n, a.internal[i + 1], b.internal[i + 1]) THEN FALSE
    ELSE ArrayEqFrom(n, LEN, a, b, i + 1)

ArrayEq(n, LEN, a, b) == ArrayEqFrom(n, LEN, a, b, 0)

\* ---- Debug

RECURSIVE Join(_, _)
Join(strs, sep) ==
    IF strs = <<>> THEN ""
    ELSE IF Len(strs) = 1 THEN strs[1]
    ELSE strs[1] \o sep \o Join(Tail(strs), sep)

\* {:?} of an f32 of integral value, of an i32 or u32, of a boolean.
FieldDebug(k, x) ==
    CASE k = "f32" -> IF IsNaN(x) THEN "NaN" ELSE ToString(x[2]) \o ".0"
      [] k = "boolean" -> IF x = "True" THEN "True" ELSE "False"
      [] OTHER -> ToString(x)

\* #[derive(Debug)] on a tuple struct: name(field, field, ..); on enum boolean:
\* the variant.
PrimDebug(n, v) ==
    IF n = "boolean" THEN FieldDebug("boolean", v)
    ELSE n \o "(" \o Join([i \in 1..Arity(n) |-> FieldDebug(FieldKind(n), v[i])], ", ") \o ")"

\* #[derive(Debug)] on ArrayElementWrapper.
WrapperDebugDerived(n, w) == "ArrayElementWrapper { element: " \o PrimDebug(n, w.element) \o " }"

\* impl Debug for ArrayElementWrapper<T>: <T as Debug>::fmt(&self.element, f)
WrapperDebug(n, w) == PrimDebug(n, w.element)

\* impl Debug for array: f.debug_list().entries(self.internal.iter()).finish()
ArrayDebug(n, a) ==
    "[" \o Join([i \in 1..Len(a.internal) |-> WrapperDebug(n, a.internal[i])], ", ") \o "]"

\* ---- operations on arrays

\* The traits of operators and formatting implemented for the type T.
ValueImpls(T) ==
    CASE T[1] = "prim" ->
           {"Clone", "Copy", "PartialEq", "Debug"}
           \cup (IF T[2] \in VecNames THEN {"Index", "IndexMut"} ELSE {})
      [] T[1] = "array" -> {"Clone", "Copy", "PartialEq", "Debug"}
      [] T[1] = "mat" -> {"Clone", "Copy", "PartialEq", "Debug", "Deref", "DerefMut"}
      [] OTHER -> {}

\* let obj: array<n, len> = array![x0, x1, ..];
NewArray ==
    \E n \in ElemNames, len \in 0..MaxElems :
        \E xs \in [1..len -> ElemVals(n)], pads \in [1..len -> PadBytes(n)] :
            /\ res.op = "none"
            /\ obj' = [ty |-> Array(<<"prim", n>>, len), v |-> ArrayOf(xs, pads)]
            /\ res' = [NoRes EXCEPT !.op = "new", !.x = xs]
            /\ UNCHANGED <<env, last, probe>>

\* let obj: array<n, len> = array![elem; len];
NewArrayRepeat ==
    \E n \in ElemNames, len \in 0..MaxElems :
        \E elem \in ElemVals(n), pads \in [1..len -> PadBytes(n)] :
            /\ res.op = "none"
            /\ obj' = [ty |-> Array(<<"prim", n>>, len), v |-> ArrayRepeat(elem, len, pads)]
            /\ res' = [NoRes EXCEPT !.op = "new", !.x = [i \in 1..len |-> elem]]
            /\ UNCHANGED <<env, last, probe>>

\* obj[i] and obj[i] = x on an array: array implements neither Index nor
\* IndexMut and its field internal is private, so the expression does not
\* compile (E0608, cannot index into a value of type array<T, LEN>).
ArrayIndex ==
    \E i \in 0..MaxIndex, op \in {"index", "index_mut"} :
        /\ res.op = "none"
        /\ obj.ty[1] = "array"
        /\ res' = [NoRes EXCEPT !.op = op, !.i = i, !.before = obj.v,
                                 !.error = IF (IF op = "index" THEN "Index" ELSE "IndexMut")
                                               \in ValueImpls(obj.ty)
                                           THEN "" ELSE "E0608"]
        /\ UNCHANGED <<env, last, probe, obj>>

\* obj == other, on arrays of one type.
ArrayEquals ==
    /\ res.op = "none"
    /\ obj.ty[1] = "array"
    /\ \E other \in Arrays(obj.ty[2][2], obj.ty[3]) :
          res' = [NoRes EXCEPT !.op = "eq", !.x = <<other>>,
                               !.out = <<ArrayEq(obj.ty[2][2], obj.ty[3], obj.v, other)>>]
    /\ UNCHANGED <<env, last, probe, obj>>

\* ---- matrices

\* The constructor with the columns stored last to first.
MatReversed(n, cols, pads) ==
    [columns |-> ArrayOf([i \in 1..Len(cols) |-> cols[Len(cols) + 1 - i]], pads)]

\* pub fn matCxR(c0: vecR, c1: vecR, ..) -> matCxR { matCxR { columns: array![c0, c1, ..] } }
Mat(n, cols, pads) == [columns |-> ArrayOf(cols, pads)]

\* matCxR::zero(): matCxR(vecR::zero(), vecR::zero(), ..)
MatZero(n, pads) == Mat(n, [i \in 1..MatDecl[n].cols |-> zero(MatDecl[n].col)], pads)

\* impl Deref for matCxR: &self.columns
deref(m) == m.columns

\* #[derive(PartialEq)] on matCxR: the field columns.
MatEq(n, a, b) == ArrayEq(MatDecl[n].col, MatDecl[n].cols, a.columns, b.columns)

\* impl Debug for matCxR: format_args!("matCxR{:?}", &self.columns)
MatDebug(n, m) == n \o ArrayDebug(MatDecl[n].col, m.columns)

\* The values of the matrix type n made from the columns of ElemVals.
Mats(n) ==
    {Mat(n, cols, pads) : cols \in [1..MatDecl[n].cols -> ElemVals(MatDecl[n].col)],
                          pads \in [1..MatDecl[n].cols -> PadBytes(MatDecl[n].col)]}

\* let obj = matCxR(c0, c1, ..);
NewMat ==
    \E n \in MatNames :
        \E cols \in [1..MatDecl[n].cols -> ElemVals(MatDecl[n].col)],
           pads \in [1..MatDecl[n].cols -> PadBytes(MatDecl[n].col)] :
            /\ res.op = "none"
            /\ obj' = [ty |-> <<"mat", n>>, v |-> Mat(n, cols, pads)]
            /\ res' = [NoRes EXCEPT !.op = "new", !.x = cols]
            /\ UNCHANGED <<env, last, probe>>

\* let obj = matCxR::zero();
ZeroMat ==
    \E n \in MatNames :
        \E pads \in [1..MatDecl[n].cols -> PadBytes(MatDecl[n].col)] :
            /\ res.op = "none"
            /\ obj' = [ty |-> <<"mat", n>>, v |-> MatZero(n, pads)]
            /\ res' = [NoRes EXCEPT !.op = "zero"]
            /\ UNCHANGED <<env, last, probe>>

\* &*obj
MatDeref ==
    /\ res.op = "none"
    /\ obj.ty[1] = "mat"
    /\ res' = [NoRes EXCEPT !.op = "deref", !.out = <<deref(obj.v)>>, !.before = obj.v]
    /\ UNCHANGED <<env, last, probe, obj>>

\* *obj = arr, through deref_mut: &mut self.columns
MatDerefMut ==
    /\ res.op = "none"
    /\ obj.ty[1] = "mat"
    /\ \E arr \in Arrays(MatDecl[obj.ty[2]].col, MatDecl[obj.ty[2]].cols) :
          /\ obj' = [obj EXCEPT !.v.columns = arr]
          /\ res' = [NoRes EXCEPT !.op = "deref_mut", !.x = <<arr>>, !.before = obj.v]
    /\ UNCHANGED <<env, last, probe>>

\* obj == other, on matrices of one type.
MatEquals ==
    /\ res.op = "none"
    /\ obj.ty[1] = "mat"
    /\ \E other \in Mats(obj.ty[2]) :
          res' = [NoRes EXCEPT !.op = "eq", !.x = <<other>>,
                               !.out = <<MatEq(obj.ty[2], obj.v, other)>>]
    /\ UNCHANGED <<env, last, probe, obj>>

\* format!("{:?}", obj)
Fmt ==
    /\ res.op = "none"
    /\ obj.ty[1] \in {"prim", "array", "mat"}
    /\ res' = [NoRes EXCEPT !.op = "debug",
                             !.out = <<CASE obj.ty[1] = "prim" -> PrimDebug(obj.ty[2], obj.v)
                                         [] obj.ty[1] = "array" -> ArrayDebug(obj.ty[2][2], obj.v)
                                         [] obj.ty[1] = "mat" -> MatDebug(obj.ty[2], obj.v)>>]
    /\ UNCHANGED <<env, last, probe, obj>>

\* The operation has returned or unwound, and the program goes on.
Return ==
    /\ res.op # "none"
    /\ res' = NoRes
    /\ UNCHANGED <<env, last, probe, obj>>

NextValues ==
    \/ NewPrim \/ FromBool \/ VecIndex \/ VecIndexMut
    \/ NewArray \/ NewArrayRepeat \/ ArrayIndex \/ ArrayEquals
    \/ NewMat \/ ZeroMat \/ MatDeref \/ MatDerefMut \/ MatEquals \/ Fmt
    \/ Return

SpecValues == Init /\ [][NextValues]_vars

\* ------------------------------------------------------------------ claims

\* The declarations as they were when the item last reports on was compiled.
EnvBefore == SubSeq(env, 1, last.name - 1)

\* The size and alignment the std140 table gives a scalar or vector of k components.
TableSize(k) == 4 * k
TableAlign(k) == IF k = 1 THEN 4 ELSE IF k = 2 THEN 8 ELSE 16

\* C1: each of the sixteen scalar and vector types has the size (4, 8, 12, 16)
\* and the alignment (4, 8, 16, 16) of the std140 table; a 3-vector has size
\* 12 and alignment 16.
C1_CatalogSizeAlign ==
    probe.ty[1] = "prim" =>
        /\ probe.size = TableSize(Arity(probe.ty[2]))
        /\ probe.align = TableAlign(Arity(probe.ty[2]))

\* C2: PointLight { position: vec3, intensity: float }, once validated, has
\* position at offset 0, intensity at offset 12 and size 16.
C2_PointLightLayout ==
    (last.status = "validated" /\ last.input = Example(1)) =>
        /\ last.offsets = <<0, 12>>
        /\ last.size = 16

\* C4: for every element type T that is Std140ArrayElement and every N >= 1,
\* size_of(array<T, N>) = N * round_up(size_of(T), 16), so the stride from one
\* element to the next is a multiple of 16.
C4_ArrayStride ==
    (probe.ty[1] = "array" /\ probe.ty[3] >= 1) =>
        /\ Std140ArrayElement(probe.ty[2], env)
        /\ probe.size = probe.ty[3] * RoundUp(SizeOf(probe.ty[2], env), 16)
        /\ probe.size % probe.ty[3] = 0
        /\ (probe.size \div probe.ty[3]) % 16 = 0

\* An array of three floats is measured: 48 bytes, 16 for each 4-byte element.
C4_Witness ==
    /\ probe.ty = Array(Float, 3)
    /\ probe.size = 48

\* C5: a matrix of C columns and R rows has size C * round_up(size_of(vecR), 16)
\* = 16 * C whatever R is; mat3x2 has size 48.
C5_MatrixSize ==
    probe.ty[1] = "mat" =>
        LET d == MatDecl[probe.ty[2]]
        IN  /\ probe.size = d.cols * RoundUp(SizeOf(<<"prim", d.col>>, env), 16)
            /\ probe.size = 16 * d.cols
            /\ probe.ty = <<"mat", "mat3x2">> => d.cols = 3 /\ d.col = "vec2" /\ probe.size = 48

\* mat3x2 is measured: 48 bytes.
C5_Witness ==
    /\ probe.ty = <<"mat", "mat3x2">>
    /\ probe.size = 48

\* The item reported on is a struct the macro was applied to.
IsStructItem == last.input.kind = "struct"

Fields == last.input.fields

\* A catalog type, an array of such, or a validated struct.
RECURSIVE CatalogType(_, _)
CatalogType(T, e) ==
    CASE T[1] \in {"prim", "mat"} -> TRUE
      [] T[1] = "array" -> CatalogType(T[2], e)
      [] T[1] = "user" -> Declared(T, e) /\ e[T[2]].status = "validated"
      [] OTHER -> FALSE

\* The end of field i: its offset and its size.
FieldEnd(i) == last.offsets[i] + SizeOf(Fields[i], EnvBefore)

\* C3: in a validated struct of catalog, array and validated-struct fields, the
\* fields lie in declaration order, each at the end of the field before it
\* rounded up to its own alignment; the struct is aligned to exactly 16 and its
\* size is the end of its last field rounded up to a multiple of 16.
C3_SequentialLayout ==
    (last.status = "validated" /\ \A i \in 1..Len(Fields) : CatalogType(Fields[i], EnvBefore)) =>
        /\ Len(last.offsets) = Len(Fields)
        /\ \A i \in 1..Len(Fields) :
              last.offsets[i] = RoundUp(IF i = 1 THEN 0 ELSE FieldEnd(i - 1),
                                        AlignOf(Fields[i], EnvBefore))
        /\ \A i, j \in 1..Len(Fields) : i < j => FieldEnd(i) <= last.offsets[j]
        /\ last.align = 16
        /\ last.size = RoundUp(IF Fields = <<>> THEN 0 ELSE FieldEnd(Len(Fields)), 16)
        /\ last.size % 16 = 0
        /\ env[last.name].size = last.size
        /\ env[last.name].align = last.align

\* A float followed by a vec2 is validated: the vec2 lies at 8, past the float's
\* end at 4, and the struct's 16 bytes end at the next multiple of 16.
C3_Witness ==
    /\ last.status = "validated"
    /\ Fields = <<Float, Vec2>>
    /\ last.offsets = <<0, 8>>
    /\ last.size = 16

\* C6: a struct with a field whose type is not ReprStd140 is rejected as a
\* whole, wherever the field stands: it gets no marker trait and is no type a
\* later declaration can use.
C6_BadFieldRejected ==
    (IsStructItem /\ \E i \in 1..Len(Fields) : ~ReprStd140(Fields[i], EnvBefore)) =>
        /\ last.status = "rejected"
        /\ env[last.name].status = "rejected"
        /\ Markers(User(last.name), env) = {}
        /\ ~WellFormed(User(last.name), env)
        /\ ~WellFormed(Array(User(last.name), 1), env)

\* A struct whose first field is a float and whose second is a String is rejected.
C6_Witness ==
    /\ IsStructItem
    /\ last.input.attrs = <<>>
    /\ Fields = <<Float, HostString>>
    /\ last.status = "rejected"

\* C7: a struct without another attribute whose field types are all ReprStd140
\* is validated and holds Std140Struct, ReprStd140 and Std140ArrayElement; every
\* validated struct can be written as a field type and as the element type of
\* an array, and both then hold ReprStd140.
C7_ValidatedHoldsAll ==
    /\ (IsStructItem /\ last.input.attrs = <<>>
          /\ \A i \in 1..Len(Fields) : ReprStd140(Fields[i], EnvBefore)) =>
            /\ last.status = "validated"
            /\ Markers(User(last.name), env) = {"ReprStd140", "Std140ArrayElement", "Std140Struct"}
    /\ \A j \in 1..Len(env) :
          env[j].status = "validated" =>
            /\ Std140Struct(User(j), env)
            /\ ReprStd140(User(j), env)
            /\ Std140ArrayElement(User(j), env)
            /\ WellFormed(Array(User(j), MaxLen), env)
            /\ ReprStd140(Array(User(j), MaxLen), env)

\* The second declaration has as fields the first, a validated struct, and an
\* array of it, and is validated.
C7_Witness ==
    /\ last.name = 2
    /\ last.status = "validated"
    /\ env[1].status = "validated"
    /\ Fields = <<User(1), Array(User(1), MaxLen)>>

\* A type and the element types of the arrays in it.
RECURSIVE SubTypes(_)
SubTypes(T) == {T} \cup (IF T[1] = "array" THEN SubTypes(T[2]) ELSE {})

\* The types the item reported on writes, and the declared types.
TypesInUse ==
    UNION {SubTypes(Fields[i]) : i \in 1..Len(Fields)} \cup {User(j) : j \in 1..Len(env)}

\* A scalar, vector or matrix, or a validated struct.
GrantedBoth(T) == T[1] \in {"prim", "mat"} \/ (Declared(T, env) /\ env[T[2]].status = "validated")

\* C8 as claimed: every type the library or the macro grants a marker trait
\* (scalars, vectors, matrices, arrays, validated structs) holds ReprStd140
\* exactly when it holds Std140ArrayElement.
C8_MarkersTogether ==
    \A T \in TypesInUse :
        (GrantedBoth(T) \/ T[1] = "array") => (ReprStd140(T, env) <=> Std140ArrayElement(T, env))

\* C8 as amended: scalars, vectors, matrices and validated structs hold both
\* ReprStd140 and Std140ArrayElement; array<T, N> holds ReprStd140 exactly when
\* T is Std140ArrayElement, and never Std140ArrayElement; whatever holds
\* Std140ArrayElement holds ReprStd140.
C8_MarkersAmended ==
    \A T \in TypesInUse :
        /\ GrantedBoth(T) => ReprStd140(T, env) /\ Std140ArrayElement(T, env)
        /\ T[1] = "array" =>
              /\ ~Std140ArrayElement(T, env)
              /\ ReprStd140(T, env) <=> Std140ArrayElement(T[2], env)
        /\ Std140ArrayElement(T, env) => ReprStd140(T, env)

\* A validated struct with a vec3 and an array of floats: the array is
\* ReprStd140 and not Std140ArrayElement, the vec3 and the struct are both.
C8_Witness ==
    /\ last.status = "validated"
    /\ Fields = <<Vec3, Array(Float, MaxLen)>>
    /\ ReprStd140(Array(Float, MaxLen), env)
    /\ ~Std140ArrayElement(Array(Float, MaxLen), env)
    /\ Markers(User(last.name), env) = {"ReprStd140", "Std140ArrayElement", "Std140Struct"}

AllTypes == PrimTypes \cup MatTypes \cup FieldMenu(env)

\* C10 as claimed: a type holds Std140Struct only when a successful
\* #[repr_std140] expansion produced the impl.
C10_OnlyByValidator ==
    \A T \in AllTypes :
        Std140Struct(T, env) => (Declared(T, env) /\ env[T[2]].status = "validated")

\* C10 as amended: the library implements Std140Struct for none of its types,
\* and a rejected expansion grants it to nothing; a user type holds it only
\* through the impl of a successful #[repr_std140] expansion or through an
\* unsafe impl the user crate writes for a type of its own.
C10_ValidatorOrUnsafeImpl ==
    \A T \in AllTypes :
        Std140Struct(T, env) =>
            /\ Declared(T, env)
            /\ env[T[2]].status \in {"validated", "plain"}
            /\ env[T[2]].status = "plain" => "Std140Struct" \in env[T[2]].impls

\* One type was granted Std140Struct by the macro, another by an unsafe impl.
C10_Witness ==
    /\ Len(env) = 2
    /\ env[1].status = "validated" /\ Std140Struct(User(1), env)
    /\ env[2].status = "plain" /\ Std140Struct(User(2), env)

\* What the macro returned for the item reported on.
Tokens == last.tokens

\* The item reported on is granted nothing and is no type a declaration can use.
NothingGranted ==
    /\ last.status = "rejected"
    /\ env[last.name].status = "rejected"
    /\ env[last.name].impls = {}
    /\ Markers(User(last.name), env) = {}
    /\ ~WellFormed(User(last.name), env)

\* C11: #[repr_std140] on a struct that carries another #[repr(..)] returns the
\* compile_error! with the message "Cannot parse another #[repr] attribute on a
\* struct marked with #[repr_std140]" and nothing else: no item, no assert of
\* a field, no impl of a marker trait; no field is looked at, so none is
\* reported, whatever its type.
C11_OtherReprOnlyError ==
    (IsStructItem /\ has_other_repr(last.input)) =>
        /\ Tokens.error = MsgOtherRepr
        /\ ~Tokens.emit
        /\ Tokens.asserts = <<>>
        /\ Tokens.impls = {}
        /\ last.message = MsgOtherRepr
        /\ last.errors = {}
        /\ NothingGranted

\* A struct under #[repr(..)] whose only field is a String: the message is the
\* one about #[repr], and the String is not reported.
C11_Witness ==
    /\ IsStructItem
    /\ last.input.attrs = <<"repr">>
    /\ Fields = <<HostString>>
    /\ last.message = MsgOtherRepr
    /\ last.errors = {}
    /\ last.status = "rejected"

\* The item reported on carries a second #[repr_std140].
AppliedTwice == \E i \in 1..Len(last.input.attrs) : last.input.attrs[i] = "repr_std140"

\* C12: a struct under two #[repr_std140] attributes does not build: the second
\* application finds the #[repr(C, align(16))] of the first and returns the
\* compile_error! in place of the struct, which is granted no marker trait and
\* is no type a declaration can use, even when all its fields are ReprStd140.
C12_TwiceIsError ==
    (IsStructItem /\ AppliedTwice) =>
        /\ Tokens.error # ""
        /\ ~Tokens.emit
        /\ last.message = MsgOtherRepr
        /\ NothingGranted

\* A struct of one float under two #[repr_std140]: the first application emits
\* the assert of the float, the second the error.
C12_Witness ==
    /\ IsStructItem
    /\ last.input.attrs = <<"repr_std140">>
    /\ Fields = <<Float>>
    /\ Tokens.asserts = <<Float>>
    /\ last.message = MsgOtherRepr
    /\ last.status = "rejected"

\* C13: #[repr_std140] on an enum or a union returns the compile_error! with the
\* message "Cannot represent an enum or union as std140, only a struct." and
\* nothing else: the item is not emitted again, there is no assert and no impl
\* of a marker trait.
C13_NotStructOnlyError ==
    (last.input.kind \in {"enum", "union"}) =>
        /\ Tokens.error = MsgNotStruct
        /\ ~Tokens.emit
        /\ Tokens.asserts = <<>>
        /\ Tokens.impls = {}
        /\ last.message = MsgNotStruct
        /\ last.errors = {}
        /\ NothingGranted

\* The second declaration is an enum and is rejected with the message.
C13_Witness ==
    /\ last.name = 2
    /\ last.input.kind = "enum"
    /\ last.message = MsgNotStruct
    /\ last.status = "rejected"

\* The fields of the item reported on whose type is not ReprStd140.
BadFields == {i \in 1..Len(Fields) : ~ReprStd140(Fields[i], EnvBefore)}

\* C14: when a struct under the one #[repr_std140] has a field whose type is
\* not ReprStd140, the compiler reports the unsatisfied bound at that field:
\* something is reported, every field reported is one whose type is not
\* ReprStd140, and every such field is reported.
C14_ReportsBadField ==
    (IsStructItem /\ last.input.attrs = <<>> /\ BadFields # {}) =>
        /\ last.message = ""
        /\ last.errors # {}
        /\ last.errors \subseteq BadFields
        /\ BadFields \subseteq last.errors

\* A struct of a String and then a float: the first field is reported, the
\* second is not.
C14_Witness ==
    /\ IsStructItem
    /\ last.input.attrs = <<>>
    /\ Fields = <<HostString, Float>>
    /\ last.errors = {1}

\* obj is a vector, of arity VecArity.
IsVec == obj.ty[1] = "prim" /\ obj.ty[2] \in VecNames
VecArity == Arity(obj.ty[2])

\* C15: for every vector type, a vector just constructed reads at each index
\* i < k the i-th component given; a read at i < k returns component i and
\* changes nothing; a write at i < k sets component i to the value written and
\* leaves every other component as it was; a read or write at i >= k panics
\* with "Index out of bounds", returns nothing and leaves the vector as it was.
C15_VectorIndex ==
    IsVec =>
        /\ res.op = "new" =>
              \A i \in 0..(VecArity - 1) :
                  /\ Index(obj.ty[2], i).panic = ""
                  /\ obj.v[Index(obj.ty[2], i).field] = res.x[i + 1]
        /\ (res.op = "index" /\ res.i < VecArity) =>
              /\ res.panic = ""
              /\ res.out = <<obj.v[res.i + 1]>>
              /\ obj.v = res.before
        /\ (res.op = "index_mut" /\ res.i < VecArity) =>
              /\ res.panic = ""
              /\ obj.v[res.i + 1] = res.x[1]
              /\ \A j \in 1..VecArity : j # res.i + 1 => obj.v[j] = res.before[j]
        /\ (res.op \in {"index", "index_mut"} /\ res.i >= VecArity) =>
              /\ res.panic = MsgIndex
              /\ res.out = <<>>
              /\ obj.v = res.before

\* A bvec3 is written at index 2 and changes there; a vec4 is read at index 4
\* and panics.
C15_Witness ==
    \/ /\ obj.ty = <<"prim", "bvec3">>
       /\ res.op = "index_mut" /\ res.i = 2
       /\ res.before[3] # obj.v[3]
    \/ /\ obj.ty = <<"prim", "vec4">>
       /\ res.op = "index" /\ res.i = 4
       /\ res.panic = MsgIndex

\* obj is a boolean or a vector of booleans.
IsBoolean == obj.ty[1] = "prim" /\ (obj.ty[2] = "boolean" \/ FieldKind(obj.ty[2]) = "boolean")

\* C20: a boolean has the size and alignment of a uint, 4 bytes; False is
\* stored as 0 and True as 1; boolean::from(false) is False and
\* boolean::from(true) is True; every word of a boolean or of a vector of
\* booleans, however constructed or written, is 0 or 1.
C20_BooleanEncoding ==
    /\ PrimLayout("boolean") = PrimLayout("uint")
    /\ PrimLayout("boolean").size = 4
    /\ Encoding("boolean", "False") = <<0>>
    /\ Encoding("boolean", "True") = <<1>>
    /\ res.op = "from" =>
          /\ obj.ty = <<"prim", "boolean">>
          /\ res.x[1] => obj.v = "True"
          /\ ~res.x[1] => obj.v = "False"
          /\ Encoding("boolean", obj.v) = <<IF res.x[1] THEN 1 ELSE 0>>
    /\ IsBoolean =>
          LET words == Encoding(obj.ty[2], obj.v)
          IN  \A i \in 1..Len(words) : words[i] \in {0, 1}

\* boolean::from(true) has returned True, stored as 1.
C20_Witness ==
    /\ res.op = "from"
    /\ res.x = <<TRUE>>
    /\ obj.v = "True"
    /\ Encoding("boolean", obj.v) = <<1>>

\* obj is an array, of ElemName elements, Length of them.
IsArray == obj.ty[1] = "array"
ElemName == obj.ty[2][2]
Length == obj.ty[3]

\* The elements of the array value a, in order.
Elements(a) == [i \in 1..Len(a.internal) |-> a.internal[i].element]

\* C16: an array made from a list of N values reads back, by index 0..N-1,
\* the values of the list in order; reading and writing an element by index
\* compile, and at an index of N or more panic as a vector's do.
C16_ArrayRoundTrip ==
    (IsArray /\ res.op \in {"index", "index_mut"}) =>
        /\ res.error = ""
        /\ res.i < Length =>
              /\ res.panic = ""
              /\ res.op = "index" => res.out = <<Elements(obj.v)[res.i + 1]>>
        /\ res.i >= Length => res.panic = MsgIndex

\* T's equality is reflexive on the elements of a, symmetric on all elements.
ElemReflexive(a) == \A i \in 1..Len(a.internal) : PrimEq(ElemName, Elements(a)[i], Elements(a)[i])
ElemSymmetric == \A x, y \in ElemVals(ElemName) : PrimEq(ElemName, x, y) <=> PrimEq(ElemName, y, x)

\* C17: two arrays of one type are equal exactly when each element of the one
\* equals, by the element type's ==, the element of the other at its index;
\* whatever the padding of either holds, the result is the same; an array
\* equals itself when each of its elements equals itself, and a == b is
\* b == a when the element type's == is symmetric.
C17_ArrayEquality ==
    (IsArray /\ res.op = "eq") =>
        LET other == res.x[1]
        IN  /\ Len(obj.v.internal) = Length /\ Len(other.internal) = Length
            /\ res.out[1] <=> \A i \in 1..Length :
                                 PrimEq(ElemName, Elements(obj.v)[i], Elements(other)[i])
            /\ \A p, q \in [1..Length -> PadBytes(ElemName)] :
                  ArrayEq(ElemName, Length, ArrayOf(Elements(obj.v), p),
                          ArrayOf(Elements(other), q)) = res.out[1]
            /\ ElemReflexive(obj.v) => ArrayEq(ElemName, Length, obj.v, obj.v)
            /\ ElemSymmetric => ArrayEq(ElemName, Length, other, obj.v) = res.out[1]

\* Two arrays of two floats with the same elements and different padding in
\* both wrappers compare equal.
C17_Witness ==
    /\ IsArray /\ res.op = "eq"
    /\ obj.ty = Array(Float, 2)
    /\ Elements(obj.v) = <<<<F32(0)>>, <<F32(1)>>>>
    /\ Elements(res.x[1]) = Elements(obj.v)
    /\ obj.v.internal[1].pad # res.x[1].internal[1].pad
    /\ obj.v.internal[2].pad # res.x[1].internal[2].pad
    /\ res.out = <<TRUE>>

\* obj is a matrix, of MatCols columns of type MatCol.
IsMat == obj.ty[1] = "mat"
MatCols == MatDecl[obj.ty[2]].cols
MatCol == MatDecl[obj.ty[2]].col

\* C18: a matrix matCxR holds an array<vecR, C> and nothing else: it has the
\* array's size and alignment; constructed from C columns it holds them in
\* the order given; deref returns the array of its columns, and what is
\* written through deref_mut is the array of its columns afterwards; two
\* matrices are equal exactly when the arrays of their columns are; every
\* component of zero() is 0.
C18_MatrixWrapsArray ==
    IsMat =>
        /\ Layout(obj.ty, env) = Layout(Array(<<"prim", MatCol>>, MatCols), env)
        /\ Len(deref(obj.v).internal) = MatCols
        /\ res.op = "new" => Elements(deref(obj.v)) = res.x
        /\ res.op = "deref" => res.out = <<obj.v.columns>> /\ obj.v = res.before
        /\ res.op = "deref_mut" => deref(obj.v) = res.x[1]
        /\ res.op = "eq" =>
              /\ res.out[1] <=> ArrayEq(MatCol, MatCols, deref(obj.v), deref(res.x[1]))
              /\ res.out[1] <=> \A i \in 1..MatCols :
                                   PrimEq(MatCol, Elements(obj.v.columns)[i],
                                          Elements(res.x[1].columns)[i])
        /\ res.op = "zero" =>
              \A i \in 1..MatCols : \A j \in 1..Arity(MatCol) :
                  Elements(obj.v.columns)[i][j] = F32(0)

\* mat3x2 is constructed from three columns of which the first differs from
\* the last, and holds them in that order.
C18_Witness ==
    /\ obj.ty = <<"mat", "mat3x2">>
    /\ res.op = "new"
    /\ res.x = <<Unit("vec2", 1), Unit("vec2", 1), Unit("vec2", 2)>>
    /\ Elements(obj.v.columns) = res.x

\* The Debug output of each element of the array value a.
ElementsDebug(n, a) == [i \in 1..Len(a.internal) |-> PrimDebug(n, Elements(a)[i])]

\* C19: the Debug output of an array is "[", the Debug output of each of its N
\* elements in order, separated by ", ", and "]", as in
\* "[float(0.0), float(1.0)]"; the Debug output of a matrix is its type name
\* and then that of the array of its columns, as in
\* "mat2x2[vec2(1.0, 0.0), vec2(0.0, 1.0)]".
C19_DebugListsElements ==
    res.op = "debug" =>
        /\ IsArray =>
              /\ res.out = <<"[" \o Join(ElementsDebug(ElemName, obj.v), ", ") \o "]">>
              /\ Len(ElementsDebug(ElemName, obj.v)) = Length
              /\ (ElemName = "float" /\ Elements(obj.v) = <<<<F32(0)>>, <<F32(1)>>>>) =>
                    res.out = <<"[float(0.0), float(1.0)]">>
              /\ (ElemName = "boolean" /\ Elements(obj.v) = <<"True">>) =>
                    res.out = <<"[True]">>
              /\ Length = 0 => res.out = <<"[]">>
        /\ IsMat =>
              /\ res.out = <<obj.ty[2] \o "["
                               \o Join(ElementsDebug(MatCol, obj.v.columns), ", ") \o "]">>
              /\ (obj.ty[2] = "mat2x2"
                    /\ Elements(obj.v.columns) = <<Unit("vec2", 1), Unit("vec2", 2)>>) =>
                    res.out = <<"mat2x2[vec2(1.0, 0.0), vec2(0.0, 1.0)]">>
              /\ (obj.ty[2] = "mat2x3"
                    /\ Elements(obj.v.columns) = <<Unit("vec3", 1), Unit("vec3", 2)>>) =>
                    res.out = <<"mat2x3[vec3(1.0, 0.0, 0.0), vec3(0.0, 1.0, 0.0)]">>
              /\ (obj.ty[2] = "mat4x4"
                    /\ Elements(obj.v.columns)
                        = <<Unit("vec4", 1), Unit("vec4", 2), Unit("vec4", 3), Unit("vec4", 4)>>) =>
                    res.out = <<"mat4x4[vec4(1.0, 0.0, 0.0, 0.0), vec4(0.0, 1.0, 0.0, 0.0), vec4(0.0, 0.0, 1.0, 0.0), vec4(0.0, 0.0, 0.0, 1.0)]">>

\* The identity mat2x2 is formatted.
C19_Witness ==
    /\ obj.ty = <<"mat", "mat2x2">>
    /\ res.op = "debug"
    /\ res.out = <<"mat2x2[vec2(1.0, 0.0), vec2(0.0, 1.0)]">>

\* The j-th declared type can be used nowhere in a block: it holds no marker
\* trait. It can be used everywhere: it is a type and holds all three.
Unvalidated(j) == Markers(User(j), env) = {}
Validated(j) ==
    /\ WellFormed(User(j), env)
    /\ Markers(User(j), env) = {"ReprStd140", "Std140ArrayElement", "Std140Struct"}

\* The same of the declarations after the step.
ValidatedNext(j) ==
    /\ WellFormed(User(j), env')
    /\ Markers(User(j), env') = {"ReprStd140", "Std140ArrayElement", "Std140Struct"}

\* The step declares a type under #[repr_std140] and the expansion compiles.
SuccessfulRun ==
    /\ Len(env') = Len(env) + 1
    /\ last'.name = Len(env')
    /\ last'.status = "validated"
    /\ last'.input.kind = "struct"
    /\ last'.input.attrs = <<>>
    /\ \A i \in 1..Len(last'.input.fields) : ReprStd140(last'.input.fields[i], env)

\* The step declares a type under #[repr_std140] and the expansion is rejected.
RejectedRun ==
    /\ Len(env') = Len(env) + 1
    /\ last'.name = Len(env')
    /\ last'.status = "rejected"

\* C21 as claimed: a declared type is at all times either unvalidated or
\* validated; it becomes validated only in the step that declares it, by a
\* successful run of the macro, and is unvalidated after a rejected run; what
\* it is once declared, it stays.
C21_Lifecycle ==
    /\ [](\A j \in 1..Len(env) : Unvalidated(j) \/ Validated(j))
    /\ [][/\ \A j \in 1..Len(env) : Validated(j) <=> ValidatedNext(j)
          /\ \A j \in (Len(env) + 1)..Len(env') : ValidatedNext(j) => SuccessfulRun
          /\ RejectedRun => ~ValidatedNext(Len(env'))]_vars

\* C21 as amended: a type declared under #[repr_std140] is at all times either
\* unvalidated or validated, validated exactly when the run that declared it
\* was of a struct without another attribute whose field types are all
\* ReprStd140, and it never changes afterwards. A type declared without the
\* macro holds no marker trait when declared; it gains marker traits only by
\* the unsafe impls the user crate writes for it, one trait a step, and may
\* then hold some and not others. No type ever loses a marker trait.
C21_LifecycleAmended ==
    /\ [](\A j \in 1..Len(env) :
            /\ env[j].status \in {"validated", "rejected", "plain"}
            /\ env[j].status = "validated" => Validated(j)
            /\ env[j].status = "rejected" => Unvalidated(j) /\ ~WellFormed(User(j), env)
            /\ (env[j].status = "plain" /\ env[j].impls = {}) => Unvalidated(j))
    /\ [][/\ Len(env') \in {Len(env), Len(env) + 1}
          /\ \A j \in 1..Len(env) :
                /\ env'[j].status = env[j].status
                /\ env[j].status # "plain" => env'[j] = env[j]
                /\ Markers(User(j), env) \subseteq Markers(User(j), env')
                /\ Cardinality(env'[j].impls \ env[j].impls) <= 1
          /\ \A j \in (Len(env) + 1)..Len(env') :
                /\ env'[j].status = "validated" <=> SuccessfulRun
                /\ env'[j].status = "rejected" <=> RejectedRun
                /\ env'[j].status = "plain" => env'[j].impls = {}]_vars

\* After a struct was validated, a second declaration was rejected: the first
\* is validated as before, the second unvalidated.
C21_Witness ==
    /\ Len(env) = 2
    /\ last.name = 2
    /\ last.status = "rejected"
    /\ env[1].status = "validated" /\ Validated(1)
    /\ env[2].status = "rejected" /\ Unvalidated(2)

====
